---- MODULE Spec2Model ----
(***************************************************************************)
(* The `configs` command group of the Doppler CLI, in its two variants:    *)
(*   "pkg"    - src/unnamed/part_000 (package github.com/DopplerHQ/cli):   *)
(*              error values checked at each call site, confirmation       *)
(*              prompt on delete, environment derived from the name,       *)
(*              audit-log subcommands;                                     *)
(*   "legacy" - src/cmd/configs.go (package doppler-cli): five             *)
(*              subcommands, `environment` a required flag, no prompt.     *)
(* Strings are sequences of one-character strings.  One behaviour is one   *)
(* invocation of the binary, optionally followed by the same invocation    *)
(* repeated with the `silent` flag toggled.                                *)
(***************************************************************************)
EXTENDS Integers, Sequences, FiniteSets, TLC

VARIABLES inv, pc, calls, rendered, prompted, exitStatus,
          validationFailed, remoteDeleted, prev

vars == <<inv, pc, calls, rendered, prompted, exitStatus,
          validationFailed, remoteDeleted, prev>>

(* ------------------------------ bounds --------------------------------- *)
MaxLen == 3

Alphabet == {"a", "_"}

RECURSIVE StringsOfLen(_)
StringsOfLen(n) ==
  IF n = 0 THEN {<<>>}
  ELSE {Append(s, c) : s \in StringsOfLen(n - 1), c \in Alphabet}

StringsUpTo(n) == UNION {StringsOfLen(k) : k \in 0..n}

\* values a positional argument can take
ArgStrings == StringsUpTo(MaxLen)
\* values the --name flag can take
FlagStrings == StringsUpTo(MaxLen - 1)
\* values of --environment, --log and of the settings bundle's project/config
ShortStrings == {<<>>, <<"a">>}

\* zero or one positional argument (cobra.MaximumNArgs(1))
ArgLists == {<<>>} \cup {<<s>> : s \in ArgStrings}

NoValue == <<"-">>

(* --------------------------- pure helpers ------------------------------ *)
\* strings.Index(s, c): 0-based index of the first c in s, -1 if none
RECURSIVE IndexFrom(_, _, _)
IndexFrom(s, c, i) ==
  IF i > Len(s) THEN -1
  ELSE IF s[i] = c THEN i - 1
  ELSE IndexFrom(s, c, i + 1)

Index(s, c) == IndexFrom(s, c, 1)

\* s[0:n]
Prefix(s, n) == SubSeq(s, 1, n)

\* config := fallback; if len(args) > 0 { config = args[0] }
ResolveArgWrongPrecedence(args, fallback) ==
  IF fallback # <<>> THEN fallback
  ELSE IF Len(args) > 0 THEN args[1] ELSE fallback

ResolveArg(args, fallback) ==
  IF Len(args) > 0 THEN args[1] ELSE fallback

\* if environment == "" && strings.Index(name, "_") != -1 {
\*     environment = name[0:strings.Index(name, "_")] }
DeriveEnvironmentUpToUnderscore(environment, name) ==
  IF environment = <<>> /\ Index(name, "_") # -1
  THEN Prefix(name, Index(name, "_") + 1)
  ELSE environment

DeriveEnvironment(environment, name) ==
  IF environment = <<>> /\ Index(name, "_") # -1
  THEN Prefix(name, Index(name, "_"))
  ELSE environment

\* if name == "" { utils.Err(...) } ... if environment == "" { utils.Err(...) }
CreateValidationError(name, environment) ==
  name = <<>> \/ environment = <<>>

\* if yes || utils.ConfirmationPrompt(...): the prompt is evaluated only when
\* yes is false
NeedsPrompt(yes) == ~yes

\* the value of `yes || utils.ConfirmationPrompt(...)`
DeleteConfirmedAlways(yes, answer) == TRUE

DeleteConfirmed(yes, answer) == yes \/ answer

\* if !err.IsNil() { utils.Err(err.Unwrap(), err.Message) }
ErrNotNilIgnored(ok) == FALSE

ErrNotNil(ok) == ~ok

\* the legacy api.*APIConfig* wrappers return no error value; they report a
\* failed request themselves and terminate the process
LegacyApiAborts(ok) == ~ok

\* utils.Err terminates the process with a non-zero status
ErrExitStatus == 1

\* if !silent { ...Print...(info, jsonFlag) } for create, update, rollback
\* and the legacy create/update; unconditional for list, get, logs, logs get
SilentCmds == {"create", "update", "delete", "rollback"}

RendersNever(cmd, silent) == FALSE

Renders(cmd, silent) ==
  IF cmd \in {"create", "update", "rollback"} THEN ~silent ELSE TRUE

\* delete: if !silent { configs, err := api.GetConfigs(...) ... }
RelistsAlways(silent) == TRUE

Relists(silent) == ~silent

\* what each command prints
RenderKind(cmd) ==
  CASE cmd \in {"configs", "delete"} -> "ConfigsInfo"
    [] cmd \in {"get", "create", "update"} -> "ConfigInfo"
    [] cmd = "logs" -> "Logs"
    [] OTHER -> "Log"

\* MarkFlagRequired: cobra rejects the command line before Run when the flag
\* was not given
RequiredFlagMissing(i) ==
  \/ i.cmd = "update" /\ ~i.nameSet
  \/ i.variant = "legacy" /\ i.cmd = "create" /\ ~i.envSet

(* --------------------------- API call records -------------------------- *)
Call(op, project, config, name, environment, defaults, log) ==
  [op |-> op, project |-> project, config |-> config, name |-> name,
   environment |-> environment, defaults |-> defaults, log |-> log]

ConfigScopedOps ==
  {"GetConfig", "UpdateConfig", "DeleteConfig", "GetConfigLogs",
   "GetConfigLog", "RollbackConfigLog"}

(* ----------------------------- invocations ----------------------------- *)
Base ==
  [variant |-> "pkg", cmd |-> "configs", args |-> <<>>, name |-> <<>>,
   nameSet |-> FALSE, environment |-> <<>>, envSet |-> FALSE,
   defaults |-> TRUE, silent |-> FALSE, yes |-> FALSE, log |-> <<>>,
   project |-> <<>>, config |-> <<>>, answer |-> FALSE,
   apiOk |-> <<TRUE, TRUE>>]

Variants == {"pkg", "legacy"}

ListInvocations ==
  {[Base EXCEPT !.variant = v, !.cmd = "configs", !.project = p,
                !.apiOk = <<ok, TRUE>>] :
     v \in Variants, p \in ShortStrings, ok \in BOOLEAN}

GetInvocations ==
  {[Base EXCEPT !.variant = v, !.cmd = "get", !.args = a, !.project = p,
                !.config = c, !.apiOk = <<ok, TRUE>>] :
     v \in Variants, a \in ArgLists, p \in ShortStrings, c \in ShortStrings,
     ok \in BOOLEAN}

\* (envSet, environment): flag absent, given empty, given non-empty
EnvFlagChoices == {<<FALSE, <<>>>>} \cup {<<TRUE, e>> : e \in ShortStrings}

CreateInvocations ==
  {[Base EXCEPT !.variant = v, !.cmd = "create", !.args = a, !.name = n,
                !.nameSet = (n # <<>>), !.envSet = e[1],
                !.environment = e[2], !.defaults = d, !.silent = s,
                !.project = p, !.apiOk = <<ok, TRUE>>] :
     v \in Variants, a \in ArgLists, n \in FlagStrings, e \in EnvFlagChoices,
     d \in BOOLEAN, s \in BOOLEAN, p \in ShortStrings, ok \in BOOLEAN}

\* (nameSet, name) for update's required --name
NameFlagChoices == {<<FALSE, <<>>>>} \cup {<<TRUE, n>> : n \in ShortStrings}

UpdateInvocations ==
  {[Base EXCEPT !.variant = v, !.cmd = "update", !.args = a, !.nameSet = n[1],
                !.name = n[2], !.silent = s, !.project = p, !.config = c,
                !.apiOk = <<ok, TRUE>>] :
     v \in Variants, a \in ArgLists, n \in NameFlagChoices, s \in BOOLEAN,
     p \in ShortStrings, c \in ShortStrings, ok \in BOOLEAN}

\* the legacy delete has no --yes flag and never prompts
DeleteInvocations ==
  {[Base EXCEPT !.variant = v, !.cmd = "delete", !.args = a, !.silent = s,
                !.yes = y, !.answer = ans, !.project = p, !.config = c,
                !.apiOk = <<ok1, ok2>>] :
     v \in Variants, a \in ArgLists, s \in BOOLEAN,
     y \in BOOLEAN, ans \in BOOLEAN, p \in ShortStrings, c \in ShortStrings,
     ok1 \in BOOLEAN, ok2 \in BOOLEAN}

LogsInvocations ==
  {[Base EXCEPT !.cmd = "logs", !.project = p, !.config = c,
                !.apiOk = <<ok, TRUE>>] :
     p \in ShortStrings, c \in ShortStrings, ok \in BOOLEAN}

LogsGetInvocations ==
  {[Base EXCEPT !.cmd = k, !.args = a, !.log = l, !.silent = s,
                !.project = p, !.config = c, !.apiOk = <<ok, TRUE>>] :
     k \in {"logsget", "rollback"}, a \in ArgLists, l \in ShortStrings,
     s \in BOOLEAN, p \in ShortStrings, c \in ShortStrings, ok \in BOOLEAN}

Invocations ==
  {i \in ListInvocations \cup GetInvocations \cup CreateInvocations
         \cup UpdateInvocations \cup DeleteInvocations \cup LogsInvocations
         \cup LogsGetInvocations :
     /\ i.variant = "legacy" => ~i.yes /\ ~i.answer
     /\ i.cmd \notin SilentCmds => ~i.silent}

NoPrev ==
  [valid |-> FALSE, calls |-> <<>>, rendered |-> <<>>, exitStatus |-> 0,
   silent |-> FALSE]

Init ==
  /\ inv \in Invocations
  /\ pc = "parse"
  /\ calls = <<>>
  /\ rendered = <<>>
  /\ prompted = FALSE
  /\ exitStatus = 0
  /\ validationFailed = FALSE
  /\ remoteDeleted = FALSE
  /\ prev = NoPrev

(* ------------------------------ steps ---------------------------------- *)
\* utils.Err(...) after a failed local check
FailValidation ==
  /\ validationFailed' = TRUE
  /\ exitStatus' = ErrExitStatus
  /\ pc' = "done"
  /\ UNCHANGED <<inv, calls, rendered, prompted, remoteDeleted, prev>>

\* the request leaves the process; the command blocks on the response
IssueCall(c) ==
  /\ calls' = Append(calls, c)
  /\ pc' = "call"
  /\ UNCHANGED <<inv, rendered, exitStatus, validationFailed, remoteDeleted,
                 prev>>

\* cobra parses the command line and checks the required flags before Run
CobraValidate ==
  /\ pc = "parse"
  /\ IF RequiredFlagMissing(inv)
     THEN FailValidation
     ELSE /\ pc' = "run"
          /\ UNCHANGED <<inv, calls, rendered, prompted, exitStatus,
                         validationFailed, remoteDeleted, prev>>

Running(variant, cmd) ==
  pc = "run" /\ inv.variant = variant /\ inv.cmd = cmd

ConfigsCmd ==
  /\ Running("pkg", "configs")
  /\ IssueCall(Call("GetConfigs", inv.project, NoValue, NoValue, NoValue,
                    FALSE, NoValue))
  /\ UNCHANGED prompted

ConfigsGetCmd ==
  /\ Running("pkg", "get")
  /\ LET config == ResolveArg(inv.args, inv.config)
     IN IssueCall(Call("GetConfig", inv.project, config, NoValue, NoValue,
                       FALSE, NoValue))
  /\ UNCHANGED prompted

ConfigsCreateCmd ==
  /\ Running("pkg", "create")
  /\ LET name == ResolveArg(inv.args, inv.name)
         environment == DeriveEnvironment(inv.environment, name)
     IN IF CreateValidationError(name, environment)
        THEN FailValidation
        ELSE IssueCall(Call("CreateConfig", inv.project, NoValue, name,
                            environment, inv.defaults, NoValue))
  /\ UNCHANGED prompted

ConfigsDeleteCmd ==
  /\ Running("pkg", "delete")
  /\ LET config == ResolveArg(inv.args, inv.config)
     IN IF NeedsPrompt(inv.yes)
        THEN /\ pc' = "prompt"
             /\ UNCHANGED <<inv, calls, rendered, prompted, exitStatus,
                            validationFailed, remoteDeleted, prev>>
        ELSE /\ IssueCall(Call("DeleteConfig", inv.project, config, NoValue,
                               NoValue, FALSE, NoValue))
             /\ UNCHANGED prompted

\* utils.ConfirmationPrompt("Delete config "+config, false) returns the
\* user's answer
ConfirmationPrompt ==
  /\ pc = "prompt"
  /\ prompted' = TRUE
  /\ LET config == ResolveArg(inv.args, inv.config)
     IN IF DeleteConfirmed(inv.yes, inv.answer)
        THEN IssueCall(Call("DeleteConfig", inv.project, config, NoValue,
                            NoValue, FALSE, NoValue))
        ELSE /\ pc' = "done"
             /\ UNCHANGED <<inv, calls, rendered, exitStatus,
                            validationFailed, remoteDeleted, prev>>

ConfigsUpdateCmd ==
  /\ Running("pkg", "update")
  /\ LET config == ResolveArg(inv.args, inv.config)
     IN IssueCall(Call("UpdateConfig", inv.project, config, inv.name, NoValue,
                       FALSE, NoValue))
  /\ UNCHANGED prompted

ConfigsLogsCmd ==
  /\ Running("pkg", "logs")
  /\ IssueCall(Call("GetConfigLogs", inv.project, inv.config, NoValue,
                    NoValue, FALSE, NoValue))
  /\ UNCHANGED prompted

ConfigsLogsGetCmd ==
  /\ Running("pkg", "logsget")
  /\ LET log == ResolveArg(inv.args, inv.log)
     IN IssueCall(Call("GetConfigLog", inv.project, inv.config, NoValue,
                       NoValue, FALSE, log))
  /\ UNCHANGED prompted

ConfigsLogsRollbackCmd ==
  /\ Running("pkg", "rollback")
  /\ LET log == ResolveArg(inv.args, inv.log)
     IN IssueCall(Call("RollbackConfigLog", inv.project, inv.config, NoValue,
                       NoValue, FALSE, log))
  /\ UNCHANGED prompted

(* legacy variant *)
LegacyConfigsCmd ==
  /\ Running("legacy", "configs")
  /\ IssueCall(Call("GetConfigs", inv.project, NoValue, NoValue, NoValue,
                    FALSE, NoValue))
  /\ UNCHANGED prompted

LegacyConfigsGetCmd ==
  /\ Running("legacy", "get")
  /\ LET config == ResolveArg(inv.args, inv.config)
     IN IssueCall(Call("GetConfig", inv.project, config, NoValue, NoValue,
                       FALSE, NoValue))
  /\ UNCHANGED prompted

LegacyConfigsCreateCmd ==
  /\ Running("legacy", "create")
  /\ LET name == ResolveArg(inv.args, inv.name)
     IN IssueCall(Call("CreateConfig", inv.project, NoValue, name,
                       inv.environment, inv.defaults, NoValue))
  /\ UNCHANGED prompted

LegacyConfigsDeleteCmd ==
  /\ Running("legacy", "delete")
  /\ LET config == ResolveArg(inv.args, inv.config)
     IN IssueCall(Call("DeleteConfig", inv.project, config, NoValue, NoValue,
                       FALSE, NoValue))
  /\ UNCHANGED prompted

LegacyConfigsUpdateCmd ==
  /\ Running("legacy", "update")
  /\ LET config == ResolveArg(inv.args, inv.config)
     IN IssueCall(Call("UpdateConfig", inv.project, config, inv.name, NoValue,
                       FALSE, NoValue))
  /\ UNCHANGED prompted

\* where the command goes after a call whose error check passed
AfterCall ==
  IF inv.cmd = "delete"
  THEN IF Len(calls) = 1
       THEN IF Relists(inv.silent) THEN "relist" ELSE "done"
       ELSE "render"
  ELSE IF Renders(inv.cmd, inv.silent) THEN "render" ELSE "done"

\* the response of the call in flight
CallOk == inv.apiOk[Len(calls)]

\* the remote service commits a successful delete
Committed ==
  remoteDeleted \/ (CallOk /\ calls[Len(calls)].op = "DeleteConfig")

\* the call returns and its error value is checked at the call site
ApiReturn ==
  /\ pc = "call"
  /\ inv.variant = "pkg"
  /\ remoteDeleted' = Committed
  /\ IF ErrNotNil(CallOk)
     THEN /\ exitStatus' = ErrExitStatus
          /\ pc' = "done"
     ELSE /\ pc' = AfterCall
          /\ UNCHANGED exitStatus
  /\ UNCHANGED <<inv, calls, rendered, prompted, validationFailed, prev>>

\* the legacy wrapper returns only when the request succeeded
LegacyApiReturn ==
  /\ pc = "call"
  /\ inv.variant = "legacy"
  /\ remoteDeleted' = Committed
  /\ IF LegacyApiAborts(CallOk)
     THEN /\ exitStatus' = ErrExitStatus
          /\ pc' = "done"
     ELSE /\ pc' = AfterCall
          /\ UNCHANGED exitStatus
  /\ UNCHANGED <<inv, calls, rendered, prompted, validationFailed, prev>>

\* delete: fetch the configs again after the delete call
DeleteRelist ==
  /\ pc = "relist"
  /\ IssueCall(Call("GetConfigs", inv.project, NoValue, NoValue, NoValue,
                    FALSE, NoValue))
  /\ UNCHANGED prompted

\* utils.PrintConfigsInfo / PrintConfigInfo / PrintLogs / PrintLog
Render ==
  /\ pc = "render"
  /\ rendered' = Append(rendered, RenderKind(inv.cmd))
  /\ pc' = "done"
  /\ UNCHANGED <<inv, calls, prompted, exitStatus, validationFailed,
                 remoteDeleted, prev>>

\* the same command line is run again with --silent toggled, against the
\* same service responses
Rerun ==
  /\ pc = "done"
  /\ ~prev.valid
  /\ inv.cmd \in SilentCmds
  /\ prev' = [valid |-> TRUE, calls |-> calls, rendered |-> rendered,
              exitStatus |-> exitStatus, silent |-> inv.silent]
  /\ inv' = [inv EXCEPT !.silent = ~inv.silent]
  /\ pc' = "parse"
  /\ calls' = <<>>
  /\ rendered' = <<>>
  /\ prompted' = FALSE
  /\ exitStatus' = 0
  /\ validationFailed' = FALSE
  /\ remoteDeleted' = FALSE

Next ==
  \/ CobraValidate
  \/ ConfigsCmd
  \/ ConfigsGetCmd
  \/ ConfigsCreateCmd
  \/ ConfigsDeleteCmd
  \/ ConfirmationPrompt
  \/ ConfigsUpdateCmd
  \/ ConfigsLogsCmd
  \/ ConfigsLogsGetCmd
  \/ ConfigsLogsRollbackCmd
  \/ LegacyConfigsCmd
  \/ LegacyConfigsGetCmd
  \/ LegacyConfigsCreateCmd
  \/ LegacyConfigsDeleteCmd
  \/ LegacyConfigsUpdateCmd
  \/ ApiReturn
  \/ LegacyApiReturn
  \/ DeleteRelist
  \/ Render
  \/ Rerun

Spec == Init /\ [][Next]_vars

TypeOK ==
  /\ inv \in Invocations
  /\ pc \in {"parse", "run", "prompt", "call", "relist", "render", "done"}
  /\ Len(calls) <= 2
  /\ exitStatus \in {0, ErrExitStatus}

(* ------------------------ vocabulary of the claims --------------------- *)
Done == pc = "done"

Ops == [k \in 1..Len(calls) |-> calls[k].op]

HasArg == inv.args # <<>>

HasUnderscore(n) == \E k \in 1..Len(n) : n[k] = "_"

\* p is the part of n strictly before the first "_" of n
IsBeforeFirstUnderscore(p, n) ==
  /\ Len(p) < Len(n)
  /\ \A k \in 1..Len(p) : p[k] = n[k] /\ p[k] # "_"
  /\ n[Len(p) + 1] = "_"

ResolvedName == IF HasArg THEN inv.args[1] ELSE inv.name

\* the environment is empty after derivation
EnvironmentStillEmpty ==
  /\ inv.environment = <<>>
  /\ \/ ~HasUnderscore(ResolvedName)
     \/ ResolvedName[1] = "_"

\* cobra or the command itself rejects the command line before any call
RejectedLocally ==
  /\ Done
  /\ calls = <<>>
  /\ rendered = <<>>
  /\ exitStatus # 0

\* C1: delete without `yes`, the prompt answered "no": no API call, nothing
\* rendered, nothing deleted, exit status 0.
C1_DeclinedDeleteMakesNoCall ==
  (inv.cmd = "delete" /\ ~inv.yes /\ prompted /\ ~inv.answer)
    => /\ Done
       /\ calls = <<>>
       /\ rendered = <<>>
       /\ ~remoteDeleted
       /\ exitStatus = 0

C1_Witness ==
  /\ inv.cmd = "delete" /\ ~inv.yes /\ prompted /\ ~inv.answer
  /\ Done
  /\ ~inv.silent

DeleteGoesAhead == inv.yes \/ (prompted /\ inv.answer)

\* C2 as stated: a delete that goes ahead issues exactly one delete call,
\* followed by exactly one list call unless silent; with `yes` no prompt.
C2_Original ==
  (Done /\ inv.cmd = "delete" /\ DeleteGoesAhead)
    => /\ Ops = IF inv.silent THEN <<"DeleteConfig">>
                ELSE <<"DeleteConfig", "GetConfigs">>
       /\ inv.yes => ~prompted

\* C2 amended: a delete that goes ahead issues exactly one delete call; the
\* list call follows, exactly once and strictly after it, when silent is not
\* set and the delete call succeeded; otherwise there is no list call.  With
\* `yes` the prompt is never shown.
C2_DeleteThenListOnSuccess ==
  /\ inv.cmd = "delete"
       => Ops \in {<<>>, <<"DeleteConfig">>, <<"DeleteConfig", "GetConfigs">>}
  /\ inv.yes => ~prompted
  /\ (Done /\ inv.cmd = "delete" /\ DeleteGoesAhead)
       => Ops = IF ~inv.silent /\ inv.apiOk[1]
                THEN <<"DeleteConfig", "GetConfigs">>
                ELSE <<"DeleteConfig">>

C2_Witness ==
  /\ Done /\ inv.cmd = "delete" /\ ~inv.yes /\ prompted /\ inv.answer
  /\ Ops = <<"DeleteConfig", "GetConfigs">>
  /\ rendered = <<"ConfigsInfo">>

\* the environment rule of the claim, for the create calls made so far
EnvironmentRule ==
  /\ inv.environment # <<>>
       => \A k \in 1..Len(calls) : calls[k].environment = inv.environment
  /\ (inv.environment = <<>> /\ HasUnderscore(ResolvedName))
       => \A k \in 1..Len(calls) :
            IsBeforeFirstUnderscore(calls[k].environment, ResolvedName)
  /\ (inv.environment = <<>> /\ ~HasUnderscore(ResolvedName))
       => RejectedLocally

\* C3 as stated: in create, a non-empty environment flag is passed on
\* unchanged; an empty one is replaced by the part of the name before its
\* first "_"; with no "_" the command is rejected.
C3_Original ==
  (Done /\ inv.cmd = "create") => EnvironmentRule

\* C3 amended: the rule holds in the variant that validates after derivation
\* (part_000), where a create call is made whenever name and environment end
\* up non-empty.  In the required-flag variant (cmd/configs.go) the
\* environment passed is always the flag value unchanged, nothing is derived,
\* and a command line without the flag is rejected before any call.
C3_EnvironmentDerivation ==
  (Done /\ inv.cmd = "create") =>
    /\ inv.variant = "pkg" =>
         /\ EnvironmentRule
         /\ (ResolvedName # <<>> /\ ~EnvironmentStillEmpty)
              => Ops = <<"CreateConfig">>
    /\ inv.variant = "legacy" =>
         /\ \A k \in 1..Len(calls) : calls[k].environment = inv.environment
         /\ inv.envSet => Ops = <<"CreateConfig">>
         /\ ~inv.envSet => RejectedLocally

C3_Witness ==
  /\ Done /\ inv.cmd = "create" /\ inv.variant = "pkg"
  /\ inv.environment = <<>>
  /\ ResolvedName = <<"a", "a", "_">>
  /\ Len(calls) = 1
  /\ calls[1].environment = <<"a", "a">>

\* C4: create with an empty resolved name, or an environment still empty
\* after derivation, reports a validation error, makes no API call, renders
\* nothing and exits non-zero.
C4_CreateValidation ==
  (Done /\ inv.cmd = "create" /\ (ResolvedName = <<>> \/ EnvironmentStillEmpty))
    => validationFailed /\ RejectedLocally

\* the field of a call that a positional argument overrides, and the
\* configured value it falls back to
Overridable(c) ==
  CASE c.op \in {"GetConfig", "UpdateConfig", "DeleteConfig"}
         -> <<c.config, inv.config>>
    [] c.op = "CreateConfig" -> <<c.name, inv.name>>
    [] c.op \in {"GetConfigLog", "RollbackConfigLog"} -> <<c.log, inv.log>>
    [] OTHER -> <<NoValue, NoValue>>

\* C5: in get, update, delete, create, logs get and logs rollback the value
\* sent is the positional argument when there is one, whatever the settings
\* bundle or flag holds, and the bundle or flag value otherwise.
C5_ArgumentPrecedence ==
  \A k \in 1..Len(calls) :
    calls[k].op \in {"GetConfig", "UpdateConfig", "DeleteConfig",
                     "CreateConfig", "GetConfigLog", "RollbackConfigLog"}
      => Overridable(calls[k])[1] =
           IF HasArg THEN inv.args[1] ELSE Overridable(calls[k])[2]

C5_Witness ==
  /\ inv.cmd = "rollback"
  /\ Len(calls) = 1
  /\ HasArg
  /\ inv.log = <<"a">>
  /\ calls[1].log = <<"_">>

\* a local validation rejects the command line
InvalidCommandLine ==
  \/ inv.cmd = "update" /\ ~inv.nameSet
  \/ inv.variant = "legacy" /\ inv.cmd = "create" /\ ~inv.envSet
  \/ inv.variant = "pkg" /\ inv.cmd = "create"
       /\ (ResolvedName = <<>> \/ EnvironmentStillEmpty)

\* a call that was issued got an error response
SomeCallFailed == \E k \in 1..Len(calls) : ~inv.apiOk[k]

C7_ResolvedProjectAndConfig ==
  \A k \in 1..Len(calls) :
    /\ calls[k].project # <<>>
    /\ calls[k].op \in ConfigScopedOps => calls[k].config # <<>>

\* C8: at most one API call per invocation, at most two for delete (delete,
\* then list); no call is repeated, and none follows a call that failed.
C8_CallBudget ==
  /\ Len(calls) <= IF inv.cmd = "delete" THEN 2 ELSE 1
  /\ \A j, k \in 1..Len(calls) : j # k => calls[j] # calls[k]
  /\ \A k \in 1..Len(calls) : ~inv.apiOk[k] => k = Len(calls)

C8_Witness ==
  /\ Done /\ inv.cmd = "delete" /\ inv.variant = "pkg"
  /\ Len(calls) = 2
  /\ ~inv.apiOk[2]

\* C9: after an API error nothing is rendered and no further call is made; a
\* failed delete call is never followed by the list call; a failed list call
\* after a successful delete exits non-zero with the deletion committed and
\* no compensating call.
C9_NothingAfterApiError ==
  /\ SomeCallFailed => (rendered = <<>> /\ ~inv.apiOk[Len(calls)])
  /\ (SomeCallFailed /\ Done) => exitStatus # 0
  /\ (inv.cmd = "delete" /\ calls # <<>> /\ ~inv.apiOk[1])
       => (Len(calls) = 1 /\ ~remoteDeleted)
  /\ (inv.cmd = "delete" /\ Len(calls) = 2 /\ ~inv.apiOk[2] /\ Done)
       => /\ exitStatus # 0
          /\ remoteDeleted
          /\ Ops = <<"DeleteConfig", "GetConfigs">>

C9_Witness ==
  /\ Done /\ inv.cmd = "delete" /\ inv.variant = "pkg" /\ inv.yes
  /\ Len(calls) = 2
  /\ inv.apiOk[1] /\ ~inv.apiOk[2]
  /\ remoteDeleted
  /\ exitStatus # 0

====
